---- MODULE Spec2Model ----
(***************************************************************************)
(* A model of package bcryptx (src/bcryptx.go): one Bcrypter instance,     *)
(* called concurrently by a few goroutines.                                *)
(*                                                                         *)
(* Durations (time.Duration, int64 nanoseconds in the source) are counted  *)
(* in milliseconds: every duration constant of the source is a multiple of *)
(* one millisecond, and the measured durations and the budgets are drawn   *)
(* from multiples of one millisecond.  No table entry the model builds     *)
(* reaches 2^31, and none the source builds from them reaches 2^63.        *)
(***************************************************************************)
EXTENDS Integers, Sequences, FiniteSets, TLC

VARIABLES
    Options,      \* bc.Options after New: [q |-> GenQuickMaxTime, s |-> GenStrongMaxTime, conc |-> GenConcurrency], the capacity of bc.concCount
    quickCost,    \* bc.quickCost
    strongCost,   \* bc.strongCost
    tuningWg,     \* counter of bc.tuningWg (sync.WaitGroup); its waiters are the goroutines blocked in Wait
    mu,           \* bc.mu (sync.RWMutex): [readers |-> number of read holders, writer |-> held for writing]
    concCount,    \* number of values buffered in the channel bc.concCount
    pc,           \* per goroutine: the statement it is at
    op,           \* per goroutine: the exported method it is executing
    arg,          \* per goroutine: the hash argument of IsCost*, drawn where testHash reads it
    c,            \* per goroutine: local c of Current*Cost / Gen*FromPass / IsCost*
    qc,           \* per goroutine: local qc of tune
    sc,           \* per goroutine: local sc of tune
    cts,          \* per goroutine: local cts of tune (the latency table), indexed 0..maxCost
    res,          \* per goroutine: what the last finished call returned
    calls,        \* number of calls started on the instance
    lastHash,     \* per goroutine: the hash its last successful Gen*FromPass returned
    hist          \* observations about the run (see HistInit)

vars == <<Options, quickCost, strongCost, tuningWg, mu, concCount,
          pc, op, arg, c, qc, sc, cts, res, calls, lastHash, hist>>

-----------------------------------------------------------------------------
(* Bounds of the model *)

\* number of goroutines calling into the instance
NumThreads == 2
\* number of calls the goroutines make on the instance, in total
MaxCalls == 2
\* the same where the goroutines call only Tune and the cost accessors
MaxAccessorCalls == 3

Threads == 1..NumThreads
\* stands for no goroutine
NoThread == NumThreads + 1

-----------------------------------------------------------------------------
(* Constants of the source *)

GenQuickMaxTime == 500
GenStrongMaxTime == 2000
GenConcurrency == 2
minCost == 4
maxCost == 31
interpTime == 50

\* golang.org/x/crypto/bcrypt: GenerateFromPassword replaces a cost below
\* MinCost by DefaultCost, and fails on a cost above MaxCost.
DefaultCost == 10

-----------------------------------------------------------------------------
(* New *)

\* Options.GenConcurrency is a Go int, 64 bits wide.  It is written in two
\* words, [hi, lo] for hi * Word + lo with 0 <= lo < Word, so that the
\* capacities the runtime refuses can be written.
Word == 1073741824

\* the Go int n, for -Word <= n < Word
Int64(n) == [hi |-> IF n < 0 THEN 0 - 1 ELSE 0, lo |-> IF n < 0 THEN n + Word ELSE n]

IsZero(v) == v.hi = 0 /\ v.lo = 0
Negative(v) == v.hi < 0

\* The Go runtime's limits on 64-bit builds: maxAlloc is 2^48 bytes, that is
\* maxAllocHi * Word, and the header of a channel takes hchanSize bytes (112
\* in the runtimes of go1.25 and go1.26; it was 96 in older ones).
maxAllocHi == 262144
hchanSize == 112

\* line 67, make(chan bool, size): runtime.makechan panics with "makechan:
\* size out of range" when size < 0 or when the buffer, of one byte per
\* element, is over maxAlloc - hchanSize.
MakeChanAccepts(size) ==
    /\ ~Negative(size)
    /\ \/ size.hi < maxAllocHi - 1
       \/ size.hi = maxAllocHi - 1 /\ size.lo <= Word - hchanSize

NilOptions == [q |-> 0, s |-> 0, conc |-> Int64(0)]

\* The Options values handed to New (nil is handled as the zero Options).
OptionInputs ==
    { NilOptions,
      [q |-> 50,        s |-> 200,       conc |-> Int64(0)],
      [q |-> 400,       s |-> 1600,      conc |-> Int64(1)],
      [q |-> 999999999, s |-> 999999999, conc |-> Int64(0)],
      [q |-> 500,       s |-> 999999999, conc |-> Int64(1)],
      [q |-> 1,         s |-> 50,        conc |-> Int64(1)],
      [q |-> 999999999, s |-> 50,        conc |-> Int64(1)],
      [q |-> 0 - 1,     s |-> 2000,      conc |-> Int64(1)],
      [q |-> 500,       s |-> 2000,      conc |-> Int64(0 - 1)],
      [q |-> 500,       s |-> 2000,      conc |-> [hi |-> maxAllocHi, lo |-> 0]] }

\* what New leaves when it panics: no *Bcrypter is returned
NoBcrypter == [panic |-> "makechan: size out of range"]

\* what is left when the runtime cannot get the memory of the buffer: the
\* process ends with a fatal error
OutOfMemory == [fatal |-> "runtime: out of memory"]

\* a New that applies the defaults only to an Options that is zero altogether
New_AllOrNothing(opts, mem) ==
    LET o == IF opts.q = 0 /\ opts.s = 0 /\ opts.conc.hi = 0 /\ opts.conc.lo = 0
             THEN [q |-> GenQuickMaxTime, s |-> GenStrongMaxTime,
                   conc |-> [hi |-> 0, lo |-> GenConcurrency]]
             ELSE opts
    IN  IF \/ o.conc.hi < 0
           \/ o.conc.hi > 262143
           \/ o.conc.hi = 262143 /\ o.conc.lo > 1073741824 - 112
        THEN [panic |-> "makechan: size out of range"]
        ELSE IF o.conc.hi > 0 /\ ~mem THEN [fatal |-> "runtime: out of memory"]
        ELSE o

\* lines 49-69: the Options of the instance New returns.  The make of line
\* 67 panics on a capacity the runtime refuses, and New then returns nothing.
\* mem: the machine has the memory for a buffer of Word bytes or more, when
\* the capacity asks for one; a smaller buffer is taken to be allocated.
New(opts, mem) ==
    LET o == [q    |-> IF opts.q = 0 THEN GenQuickMaxTime ELSE opts.q,
              s    |-> IF opts.s = 0 THEN GenStrongMaxTime ELSE opts.s,
              conc |-> IF IsZero(opts.conc) THEN Int64(GenConcurrency)
                                            ELSE opts.conc]
    IN  IF ~MakeChanAccepts(o.conc) THEN NoBcrypter
        ELSE IF o.conc.hi > 0 /\ ~mem THEN OutOfMemory
        ELSE o

\* The instances of the runs have a capacity below Word, kept as an integer.
FitsRun(bc) == bc \notin {NoBcrypter, OutOfMemory} /\ bc.conc.hi = 0
OptionsOf(bc) == [q |-> bc.q, s |-> bc.s, conc |-> bc.conc.lo]

-----------------------------------------------------------------------------
(* The hashing primitive, golang.org/x/crypto/bcrypt *)

\* A hash is [ok |-> it parses, cost |-> the cost it encodes].
Malformed == [ok |-> FALSE, cost |-> 0]
MkHash(cost) == [ok |-> TRUE, cost |-> cost]
NoHash == [ok |-> FALSE, cost |-> 0 - 1]

\* Results of calls: [kind, val]
Ret(kind, val) == [kind |-> kind, val |-> val]
NoRet == Ret("none", 0)

\* bcrypt.GenerateFromPassword(pass, cost); fails stands for a failure inside
\* the primitive (salt generation, password too long).
GenerateFromPassword(cost, fails) ==
    IF fails \/ cost > maxCost
    THEN Ret("ErrPrimitive", 0)
    ELSE Ret("hash", IF cost < minCost THEN DefaultCost ELSE cost)

\* Measured durations of one hash at costs minCost..maxCost, in ms: what
\* time.Since(t1) returns in tune when the cost is measured directly.
RECURSIVE Pow2(_)
Pow2(n) == IF n = 0 THEN 1 ELSE 2 * Pow2(n - 1)

\* a machine on which every cost takes twice the time of the one before
Doubling == [i \in minCost..maxCost |-> Pow2(i - minCost)]
\* a machine under varying load: the measured durations are not monotone
Jitter == [i \in minCost..maxCost |->
             IF i = 4 THEN 3 ELSE IF i = 5 THEN 7 ELSE IF i = 6 THEN 5
             ELSE IF i = 7 THEN 30 ELSE IF i = 8 THEN 25 ELSE IF i = 9 THEN 55
             ELSE Doubling[i]]

Measurements == { Doubling, Jitter }

-----------------------------------------------------------------------------
(* tune: the latency table and the scan *)

\* an extrapolation that does not truncate
Interpolate_NoFloor(prev) == prev * 2

\* lines 168-169: tct := cts[i-1] * 2; tct = tct - (tct % (time.Millisecond * 10))
Interpolate(prev) == (prev * 2) - ((prev * 2) % 10)

\* lines 149-171: the table up to index i; meas[i] is the duration measured
\* when cost i is hashed.
RECURSIVE BuildTable(_, _)
BuildTable(i, meas) ==
    IF i = 0 THEN [k \in {0} |-> 0]
    ELSE LET prev == BuildTable(i - 1, meas)
             e == IF i < minCost THEN 0
                  ELSE IF prev[i - 1] < interpTime THEN meas[i]
                  ELSE Interpolate(prev[i - 1])
         IN  [k \in 0..i |-> IF k = i THEN e ELSE prev[k]]

\* a condition that looks at the entry of k itself, not at the next one
Exceeds_AtIndex(t, k, budget) == (maxCost + 1 > k + 1) /\ t[k] > budget

\* the condition of lines 174 and 177 for one tier
Exceeds(t, k, budget) == (maxCost + 1 > k + 1) /\ t[k + 1] > budget

\* a scan in which a later index over the budget replaces the one kept
RECURSIVE ScanFrom_KeepLast(_, _, _, _)
ScanFrom_KeepLast(k, acc, t, budget) ==
    IF k > maxCost THEN acc
    ELSE ScanFrom_KeepLast(k + 1,
                           IF Exceeds(t, k, budget) THEN k ELSE acc,
                           t, budget)

\* lines 173-180 for one tier: k runs over range cts, acc is qc (resp. sc)
RECURSIVE ScanFrom(_, _, _, _)
ScanFrom(k, acc, t, budget) ==
    IF k > maxCost THEN acc
    ELSE ScanFrom(k + 1,
                  IF acc = 0 /\ Exceeds(t, k, budget) THEN k ELSE acc,
                  t, budget)

\* a scan that keeps the index of the entry over the budget, not the one before it
ScanCost_OffByOne(t, budget) ==
    LET k == ScanFrom(0, 0, t, budget) IN IF k = 0 THEN 0 ELSE k + 1

ScanCost(t, budget) == ScanFrom(0, 0, t, budget)

EmptyTable == [k \in {0} |-> 0]

-----------------------------------------------------------------------------
(* State *)

QuickOps == {"CurrentQuickCost", "GenQuickFromPass", "IsCostQuick"}
StrongOps == {"CurrentStrongCost", "GenStrongFromPass", "IsCostStrong"}
CurrentOps == {"CurrentQuickCost", "CurrentStrongCost"}
GenOps == {"GenQuickFromPass", "GenStrongFromPass"}
IsCostOps == {"IsCostQuick", "IsCostStrong"}

TierOf(o) == IF o \in QuickOps THEN "quick" ELSE "strong"

\* the field a Current*Cost reads: bc.quickCost (line 117, 123) or bc.strongCost (line 132, 138)
Stored(tier) == IF tier = "quick" THEN quickCost ELSE strongCost

\* hash arguments callers hand to IsCost*, besides a hash they generated
HashInputs == { Malformed, MkHash(minCost), MkHash(DefaultCost), MkHash(maxCost) }

NoVal == 0 - 1
NoPair == [quick |-> NoVal, strong |-> NoVal]

\* Observations, none of them read by the program:
\*   opts        the Options value that was handed to New
\*   lastWriter  the goroutine whose tune wrote the stored pair last
\*   written     the pair <<qc, sc>> computed by the run that wrote last
\*   lazy[t]     the first read of t's current call found the zero sentinel
\*   ranTune[t]  t's current call has run tune up to its write
\*   tuneCalled  some goroutine has called Tune on the instance
\*   genFresh[t] no tune has written since the cost read of t's last Gen*FromPass
\*   genTier[t]  the tier of t's last successful Gen*FromPass
\*   accLast[t], accPrev[t]  the costs the last two Current*Cost calls of t
\*               returned per tier, forgotten when any goroutine calls Tune
HistInit ==
    [opts       |-> NilOptions,
     lastWriter |-> NoThread,
     written    |-> <<0, 0>>,
     lazy       |-> [t \in Threads |-> FALSE],
     ranTune    |-> [t \in Threads |-> FALSE],
     tuneCalled |-> FALSE,
     genFresh   |-> [t \in Threads |-> FALSE],
     genTier    |-> [t \in Threads |-> "none"],
     accLast    |-> [t \in Threads |-> NoPair],
     accPrev    |-> [t \in Threads |-> NoPair]]

Init ==
    /\ \E o \in OptionInputs, mem \in BOOLEAN :
         /\ FitsRun(New(o, mem))
         /\ Options = OptionsOf(New(o, mem))
         /\ hist = [HistInit EXCEPT !.opts = o]
    /\ quickCost = 0
    /\ strongCost = 0
    /\ tuningWg = 0
    /\ mu = [readers |-> 0, writer |-> "none"]
    /\ concCount = 0
    /\ pc = [t \in Threads |-> "idle"]
    /\ op = [t \in Threads |-> "none"]
    /\ arg = [t \in Threads |-> Malformed]
    /\ c = [t \in Threads |-> 0]
    /\ qc = [t \in Threads |-> 0]
    /\ sc = [t \in Threads |-> 0]
    /\ cts = [t \in Threads |-> EmptyTable]
    /\ res = [t \in Threads |-> NoRet]
    /\ calls = 0
    /\ lastHash = [t \in Threads |-> NoHash]

shared == <<quickCost, strongCost, tuningWg, mu, concCount>>
tuneLocals == <<qc, sc, cts>>

-----------------------------------------------------------------------------
(* Callers *)

\* what a goroutine observes starts afresh with each call
StartCall(t) ==
    [hist EXCEPT !.lazy[t] = FALSE, !.ranTune[t] = FALSE]

CanCall(t, n) == pc[t] = "idle" /\ calls < n

\* a goroutine calls bc.Tune()
CallTune(t, n) ==
    /\ CanCall(t, n)
    /\ op' = [op EXCEPT ![t] = "Tune"]
    /\ pc' = [pc EXCEPT ![t] = "Tune_wait"]
    /\ calls' = calls + 1
    /\ res' = [res EXCEPT ![t] = NoRet]
    /\ hist' = [StartCall(t) EXCEPT !.tuneCalled = TRUE,
                                    !.accLast = [u \in Threads |-> NoPair],
                                    !.accPrev = [u \in Threads |-> NoPair]]
    /\ UNCHANGED <<Options, shared, arg, c, tuneLocals, lastHash>>

\* a goroutine calls bc.CurrentQuickCost() or bc.CurrentStrongCost()
CallCurrent(t, n) ==
    /\ CanCall(t, n)
    /\ \E o \in CurrentOps : op' = [op EXCEPT ![t] = o]
    /\ pc' = [pc EXCEPT ![t] = "cur_wait"]
    /\ calls' = calls + 1
    /\ res' = [res EXCEPT ![t] = NoRet]
    /\ hist' = StartCall(t)
    /\ UNCHANGED <<Options, shared, arg, c, tuneLocals, lastHash>>

\* a goroutine calls bc.GenQuickFromPass(pass) or bc.GenStrongFromPass(pass)
CallGen(t, n) ==
    /\ CanCall(t, n)
    /\ \E o \in GenOps : op' = [op EXCEPT ![t] = o]
    /\ pc' = [pc EXCEPT ![t] = "gen_send"]
    /\ calls' = calls + 1
    /\ res' = [res EXCEPT ![t] = NoRet]
    /\ lastHash' = [lastHash EXCEPT ![t] = NoHash]
    /\ hist' = [StartCall(t) EXCEPT !.genFresh[t] = FALSE, !.genTier[t] = "none"]
    /\ UNCHANGED <<Options, shared, arg, c, tuneLocals>>

\* a goroutine calls bc.IsCostQuick(hash) or bc.IsCostStrong(hash)
CallIsCost(t, n) ==
    /\ CanCall(t, n)
    /\ \E o \in IsCostOps : op' = [op EXCEPT ![t] = o]
    /\ pc' = [pc EXCEPT ![t] = "cur_wait"]
    /\ calls' = calls + 1
    /\ res' = [res EXCEPT ![t] = NoRet]
    /\ hist' = StartCall(t)
    /\ UNCHANGED <<Options, shared, arg, c, tuneLocals, lastHash>>

-----------------------------------------------------------------------------
(* The gate: bc.concCount, a channel of capacity GenConcurrency *)

\* a gate that lets one caller too many through
ChanCanSend_OneMore(n, capacity) == n <= capacity

\* a send on a buffered channel proceeds when the buffer has room
ChanCanSend(n, capacity) == n < capacity

\* lines 73, 82: bc.concCount <- true
GenSend(t) ==
    /\ pc[t] = "gen_send"
    /\ ChanCanSend(concCount, Options.conc)
    /\ concCount' = concCount + 1
    /\ pc' = [pc EXCEPT ![t] = "cur_wait"]
    /\ UNCHANGED <<Options, quickCost, strongCost, tuningWg, mu,
                   op, arg, c, tuneLocals, res, calls, lastHash, hist>>

\* lines 76-77, 85-86: bcrypt.GenerateFromPassword([]byte(pass), c)
GenCall(t) ==
    /\ pc[t] = "gen_call"
    /\ \E fails \in BOOLEAN :
         LET r == GenerateFromPassword(c[t], fails) IN
           /\ res' = [res EXCEPT ![t] = r]
           /\ lastHash' = [lastHash EXCEPT ![t] =
                             IF r.kind = "hash" THEN MkHash(r.val) ELSE NoHash]
           /\ hist' = [hist EXCEPT !.genTier[t] =
                             IF r.kind = "hash" THEN TierOf(op[t]) ELSE "none"]
    /\ pc' = [pc EXCEPT ![t] = "gen_recv"]
    /\ UNCHANGED <<Options, shared, op, arg, c, tuneLocals, calls>>

\* lines 74, 83: the deferred <-bc.concCount, on return
GenRecv(t) ==
    /\ pc[t] = "gen_recv"
    /\ concCount' = concCount - 1
    /\ pc' = [pc EXCEPT ![t] = "idle"]
    /\ UNCHANGED <<Options, quickCost, strongCost, tuningWg, mu,
                   op, arg, c, tuneLocals, res, calls, lastHash, hist>>

-----------------------------------------------------------------------------
(* CurrentQuickCost, CurrentStrongCost (lines 114-142) *)

\* an explicit Tune call is under way
ExplicitTune == \E u \in Threads : op[u] = "Tune" /\ pc[u] \notin {"idle", "dead"}

NoteAccessor(h, t, tier, cost) ==
    LET keep == ~ExplicitTune IN
    [h EXCEPT !.accPrev[t][tier] = IF keep THEN h.accLast[t][tier] ELSE NoVal,
              !.accLast[t][tier] = IF keep THEN cost ELSE NoVal]

\* the condition of lines 120, 135: the stored cost is the zero sentinel
IsUnset(cost) == cost = 0

\* return c (lines 126, 141), into the caller: lines 75-76, 84-85, 104-105, 110-111
ReturnCost(t, cost, h) ==
    /\ c' = [c EXCEPT ![t] = cost]
    /\ IF op[t] \in CurrentOps
       THEN /\ pc' = [pc EXCEPT ![t] = "idle"]
            /\ res' = [res EXCEPT ![t] = Ret("cost", cost)]
            /\ hist' = NoteAccessor(h, t, TierOf(op[t]), cost)
       ELSE IF op[t] \in GenOps
       THEN /\ pc' = [pc EXCEPT ![t] = "gen_call"]
            /\ res' = res
            /\ hist' = [h EXCEPT !.genFresh[t] = TRUE]
       ELSE /\ pc' = [pc EXCEPT ![t] = "is_test"]
            /\ res' = res
            /\ hist' = h

-----------------------------------------------------------------------------
(* bc.tuningWg, a sync.WaitGroup: Wait returns at once when the counter is  *)
(* 0 and otherwise registers the caller as a waiter and blocks; the Done    *)
(* that brings the counter to 0 resets the state and releases the waiters;  *)
(* a released waiter that finds the state changed again when it resumes     *)
(* panics.  Done is taken as one step.                                      *)

\* the goroutines registered as waiters of bc.tuningWg
Waiters == {u \in Threads : pc[u] \in {"cur_blocked", "Tune_blocked"}}

\* Wait: where the caller is next
WgWait(next, blocked) == IF tuningWg = 0 THEN next ELSE blocked

\* Done leaves n in the counter: where goroutine u is next, u not the caller
WgRelease(u, n) ==
    IF n = 0 /\ pc[u] = "cur_blocked" THEN "cur_woken"
    ELSE IF n = 0 /\ pc[u] = "Tune_blocked" THEN "Tune_woken"
    ELSE pc[u]

\* what a released waiter checks when it resumes: the state of the WaitGroup
\* is not zero any more
WgReused == tuningWg # 0 \/ Waiters # {}

\* panic("sync: WaitGroup is reused before previous Wait has returned") in
\* goroutine t; within Gen*FromPass the deferred receive is still to run
WgPanic(t) ==
    /\ pc' = [pc EXCEPT ![t] = IF op[t] \in GenOps THEN "panic_recv" ELSE "dead"]
    /\ res' = [res EXCEPT ![t] = Ret("panic_sync", 0)]

-----------------------------------------------------------------------------
(* CurrentQuickCost, CurrentStrongCost, continued *)

\* lines 115, 130: bc.tuningWg.Wait()
CurWait(t) ==
    /\ pc[t] = "cur_wait"
    /\ pc' = [pc EXCEPT ![t] = WgWait("cur_rlock", "cur_blocked")]
    /\ UNCHANGED <<Options, shared, op, arg, c, tuneLocals, res, calls, lastHash, hist>>

\* lines 115, 130: bc.tuningWg.Wait() resumes after the release
CurWoken(t) ==
    /\ pc[t] = "cur_woken"
    /\ IF WgReused
       THEN WgPanic(t)
       ELSE /\ pc' = [pc EXCEPT ![t] = "cur_rlock"]
            /\ res' = res
    /\ UNCHANGED <<Options, shared, op, arg, c, tuneLocals, calls, lastHash, hist>>

\* lines 116, 131: bc.mu.RLock(); a writer holding or waiting for the lock keeps readers out
CurRLock(t) ==
    /\ pc[t] = "cur_rlock"
    /\ mu.writer = "none"
    /\ mu' = [mu EXCEPT !.readers = @ + 1]
    /\ pc' = [pc EXCEPT ![t] = "cur_read"]
    /\ UNCHANGED <<Options, quickCost, strongCost, tuningWg, concCount,
                   op, arg, c, tuneLocals, res, calls, lastHash, hist>>

\* lines 117-120, 132-135: c := bc.quickCost; bc.mu.RUnlock(); if c == 0 { bc.Tune() ...
CurRead(t) ==
    /\ pc[t] = "cur_read"
    /\ mu' = [mu EXCEPT !.readers = @ - 1]
    /\ LET cost == Stored(TierOf(op[t]))
           h == [hist EXCEPT !.lazy[t] = IsUnset(cost)]
       IN  IF IsUnset(cost)
           THEN /\ c' = [c EXCEPT ![t] = cost]
                /\ pc' = [pc EXCEPT ![t] = "Tune_wait"]
                /\ res' = res
                /\ hist' = h
           ELSE ReturnCost(t, cost, h)
    /\ UNCHANGED <<Options, quickCost, strongCost, tuningWg, concCount,
                   op, arg, tuneLocals, calls, lastHash>>

\* lines 122, 137: bc.mu.RLock() after the lazily triggered Tune
CurRLock2(t) ==
    /\ pc[t] = "cur_rlock2"
    /\ mu.writer = "none"
    /\ mu' = [mu EXCEPT !.readers = @ + 1]
    /\ pc' = [pc EXCEPT ![t] = "cur_read2"]
    /\ UNCHANGED <<Options, quickCost, strongCost, tuningWg, concCount,
                   op, arg, c, tuneLocals, res, calls, lastHash, hist>>

\* lines 123, 138: c = bc.quickCost (resp. bc.strongCost), read again
Reread(t) == Stored(TierOf(op[t]))

\* lines 123-126, 138-141: c = bc.quickCost; bc.mu.RUnlock(); return c
CurRead2(t) ==
    /\ pc[t] = "cur_read2"
    /\ mu' = [mu EXCEPT !.readers = @ - 1]
    /\ ReturnCost(t, Reread(t), hist)
    /\ UNCHANGED <<Options, quickCost, strongCost, tuningWg, concCount,
                   op, arg, tuneLocals, calls, lastHash>>

-----------------------------------------------------------------------------
(* Tune (lines 96-100) and tune (lines 145-186) *)

\* line 97: bc.tuningWg.Wait()
TuneWait(t) ==
    /\ pc[t] = "Tune_wait"
    /\ pc' = [pc EXCEPT ![t] = WgWait("Tune_add", "Tune_blocked")]
    /\ UNCHANGED <<Options, shared, op, arg, c, tuneLocals, res, calls, lastHash, hist>>

\* line 97: bc.tuningWg.Wait() resumes after the release
TuneWoken(t) ==
    /\ pc[t] = "Tune_woken"
    /\ IF WgReused
       THEN WgPanic(t)
       ELSE /\ pc' = [pc EXCEPT ![t] = "Tune_add"]
            /\ res' = res
    /\ UNCHANGED <<Options, shared, op, arg, c, tuneLocals, calls, lastHash, hist>>

\* line 98: bc.tuningWg.Add(1)
TuneAdd(t) ==
    /\ pc[t] = "Tune_add"
    /\ tuningWg' = tuningWg + 1
    /\ pc' = [pc EXCEPT ![t] = "tune_measure"]
    /\ UNCHANGED <<Options, quickCost, strongCost, mu, concCount,
                   op, arg, c, tuneLocals, res, calls, lastHash, hist>>

\* lines 147-180: the table is built from the durations this run measures and
\* scanned for both tiers; a failing measurement panics (line 161)
TuneMeasure(t) ==
    /\ pc[t] = "tune_measure"
    /\ \E meas \in Measurements, fails \in BOOLEAN :
         IF fails
         THEN /\ pc' = [pc EXCEPT ![t] = "panic_done"]
              /\ UNCHANGED tuneLocals
         ELSE LET table == BuildTable(maxCost, meas) IN
              /\ cts' = [cts EXCEPT ![t] = table]
              /\ qc' = [qc EXCEPT ![t] = ScanCost(table, Options.q)]
              /\ sc' = [sc EXCEPT ![t] = ScanCost(table, Options.s)]
              /\ pc' = [pc EXCEPT ![t] = "tune_lock"]
    /\ UNCHANGED <<Options, shared, op, arg, c, res, calls, lastHash, hist>>

\* a Lock that does not wait for another writer
TuneLock_NoExclusion(t) ==
    /\ pc[t] = "tune_lock"
    /\ mu' = [mu EXCEPT !.writer = "pending"]
    /\ pc' = [pc EXCEPT ![t] = "tune_lock_wait"]
    /\ UNCHANGED <<Options, quickCost, strongCost, tuningWg, concCount,
                   op, arg, c, tuneLocals, res, calls, lastHash, hist>>

\* line 182: bc.mu.Lock(), first part: the writer announces itself
TuneLock(t) ==
    /\ pc[t] = "tune_lock"
    /\ mu.writer = "none"
    /\ mu' = [mu EXCEPT !.writer = "pending"]
    /\ pc' = [pc EXCEPT ![t] = "tune_lock_wait"]
    /\ UNCHANGED <<Options, quickCost, strongCost, tuningWg, concCount,
                   op, arg, c, tuneLocals, res, calls, lastHash, hist>>

\* line 182: bc.mu.Lock(), second part: the readers have left
TuneLockWait(t) ==
    /\ pc[t] = "tune_lock_wait"
    /\ mu.readers = 0
    /\ mu' = [mu EXCEPT !.writer = "held"]
    /\ pc' = [pc EXCEPT ![t] = "tune_write_q"]
    /\ hist' = [hist EXCEPT !.genFresh = [u \in Threads |-> FALSE]]
    /\ UNCHANGED <<Options, quickCost, strongCost, tuningWg, concCount,
                   op, arg, c, tuneLocals, res, calls, lastHash>>

\* line 183: bc.quickCost = qc
TuneWriteQ(t) ==
    /\ pc[t] = "tune_write_q"
    /\ quickCost' = qc[t]
    /\ pc' = [pc EXCEPT ![t] = "tune_write_s"]
    /\ UNCHANGED <<Options, strongCost, tuningWg, mu, concCount,
                   op, arg, c, tuneLocals, res, calls, lastHash, hist>>

\* line 184: bc.strongCost = sc
TuneWriteS(t) ==
    /\ pc[t] = "tune_write_s"
    /\ strongCost' = sc[t]
    /\ pc' = [pc EXCEPT ![t] = "tune_unlock"]
    /\ UNCHANGED <<Options, quickCost, tuningWg, mu, concCount,
                   op, arg, c, tuneLocals, res, calls, lastHash, hist>>

\* line 185: bc.mu.Unlock()
TuneUnlock(t) ==
    /\ pc[t] = "tune_unlock"
    /\ mu' = [mu EXCEPT !.writer = "none"]
    /\ pc' = [pc EXCEPT ![t] = "tune_done"]
    /\ hist' = [hist EXCEPT !.lastWriter = t, !.written = <<qc[t], sc[t]>>,
                             !.ranTune[t] = TRUE]
    /\ UNCHANGED <<Options, quickCost, strongCost, tuningWg, concCount,
                   op, arg, c, tuneLocals, res, calls, lastHash>>

\* line 146: the deferred wg.Done(), on return; Tune returns nothing (line 96)
TuneDone(t) ==
    /\ pc[t] = "tune_done"
    /\ tuningWg' = tuningWg - 1
    /\ pc' = [u \in Threads |->
                IF u # t THEN WgRelease(u, tuningWg - 1)
                ELSE IF op[t] = "Tune" THEN "idle" ELSE "cur_rlock2"]
    /\ res' = IF op[t] = "Tune" THEN [res EXCEPT ![t] = Ret("nil", 0)] ELSE res
    /\ UNCHANGED <<Options, quickCost, strongCost, mu, concCount,
                   op, arg, c, tuneLocals, calls, lastHash, hist>>

\* a panic that unwinds without running wg.Done()
PanicDone_NoDone(t) ==
    /\ pc[t] = "panic_done"
    /\ IF op[t] \in GenOps
       THEN /\ pc' = [pc EXCEPT ![t] = "panic_recv"]
            /\ res' = res
       ELSE /\ pc' = [pc EXCEPT ![t] = "dead"]
            /\ res' = [res EXCEPT ![t] = Ret("panic", 0)]
    /\ UNCHANGED <<Options, quickCost, strongCost, tuningWg, mu, concCount,
                   op, arg, c, tuneLocals, calls, lastHash, hist>>

\* line 146: the deferred wg.Done(), while the panic of line 161 unwinds
PanicDone(t) ==
    /\ pc[t] = "panic_done"
    /\ tuningWg' = tuningWg - 1
    /\ pc' = [u \in Threads |->
                IF u # t THEN WgRelease(u, tuningWg - 1)
                ELSE IF op[t] \in GenOps THEN "panic_recv" ELSE "dead"]
    /\ res' = IF op[t] \in GenOps THEN res ELSE [res EXCEPT ![t] = Ret("panic", 0)]
    /\ UNCHANGED <<Options, quickCost, strongCost, mu, concCount,
                   op, arg, c, tuneLocals, calls, lastHash, hist>>

\* lines 74, 83: the deferred <-bc.concCount, while the panic unwinds
PanicRecv(t) ==
    /\ pc[t] = "panic_recv"
    /\ concCount' = concCount - 1
    /\ pc' = [pc EXCEPT ![t] = "dead"]
    /\ res' = [res EXCEPT ![t] = IF res[t].kind = "panic_sync" THEN res[t]
                                 ELSE Ret("panic", 0)]
    /\ UNCHANGED <<Options, quickCost, strongCost, tuningWg, mu,
                   op, arg, c, tuneLocals, calls, lastHash, hist>>

-----------------------------------------------------------------------------
(* IsCostQuick, IsCostStrong (lines 102-112) and testHash (lines 190-199) *)

\* bcrypt.Cost(hash)
Cost(hash) == IF hash.ok THEN Ret("cost", hash.cost) ELSE Ret("ErrMalformed", 0)

\* a comparison that also rejects a hash of exactly the tier's cost
testHash_Strict(hash, cost) ==
    LET r == Cost(hash) IN
    IF r.kind # "cost" THEN r
    ELSE IF r.val <= cost THEN Ret("ErrLowCost", 0)
    ELSE Ret("nil", 0)

testHash(hash, cost) ==
    LET r == Cost(hash) IN
    IF r.kind # "cost" THEN r
    ELSE IF r.val < cost THEN Ret("ErrLowCost", 0)
    ELSE Ret("nil", 0)

\* lines 105, 111: return testHash(hash, c); hash is the caller's argument: a
\* hash it generated before, or any other string
IsTest(t) ==
    /\ pc[t] = "is_test"
    /\ \E h \in HashInputs \cup ({lastHash[t]} \ {NoHash}) :
         /\ arg' = [arg EXCEPT ![t] = h]
         /\ res' = [res EXCEPT ![t] = testHash(h, c[t])]
    /\ pc' = [pc EXCEPT ![t] = "idle"]
    /\ UNCHANGED <<Options, shared, op, c, tuneLocals, calls, lastHash, hist>>

-----------------------------------------------------------------------------

Next ==
    \E t \in Threads :
        \/ CallTune(t, MaxCalls)
        \/ CallCurrent(t, MaxCalls)
        \/ CallGen(t, MaxCalls)
        \/ CallIsCost(t, MaxCalls)
        \/ GenSend(t)
        \/ GenCall(t)
        \/ GenRecv(t)
        \/ CurWait(t)
        \/ CurWoken(t)
        \/ CurRLock(t)
        \/ CurRead(t)
        \/ CurRLock2(t)
        \/ CurRead2(t)
        \/ TuneWait(t)
        \/ TuneWoken(t)
        \/ TuneAdd(t)
        \/ TuneMeasure(t)
        \/ TuneLock(t)
        \/ TuneLockWait(t)
        \/ TuneWriteQ(t)
        \/ TuneWriteS(t)
        \/ TuneUnlock(t)
        \/ TuneDone(t)
        \/ PanicDone(t)
        \/ PanicRecv(t)
        \/ IsTest(t)

Spec == Init /\ [][Next]_vars

\* The goroutines call only Tune and the cost accessors.
NextAccessors ==
    \E t \in Threads :
        \/ CallTune(t, MaxAccessorCalls)
        \/ CallCurrent(t, MaxAccessorCalls)
        \/ CurWait(t)
        \/ CurWoken(t)
        \/ CurRLock(t)
        \/ CurRead(t)
        \/ CurRLock2(t)
        \/ CurRead2(t)
        \/ TuneWait(t)
        \/ TuneWoken(t)
        \/ TuneAdd(t)
        \/ TuneMeasure(t)
        \/ TuneLock(t)
        \/ TuneLockWait(t)
        \/ TuneWriteQ(t)
        \/ TuneWriteS(t)
        \/ TuneUnlock(t)
        \/ TuneDone(t)
        \/ PanicDone(t)

SpecAccessors == Init /\ [][NextAccessors]_vars

\* The goroutines call only GenQuickFromPass and GenStrongFromPass.
NextGate ==
    \E t \in Threads :
        \/ CallGen(t, MaxCalls)
        \/ GenSend(t)
        \/ GenCall(t)
        \/ GenRecv(t)
        \/ CurWait(t)
        \/ CurWoken(t)
        \/ CurRLock(t)
        \/ CurRead(t)
        \/ CurRLock2(t)
        \/ CurRead2(t)
        \/ TuneWait(t)
        \/ TuneWoken(t)
        \/ TuneAdd(t)
        \/ TuneMeasure(t)
        \/ TuneLock(t)
        \/ TuneLockWait(t)
        \/ TuneWriteQ(t)
        \/ TuneWriteS(t)
        \/ TuneUnlock(t)
        \/ TuneDone(t)
        \/ PanicDone(t)
        \/ PanicRecv(t)

SpecGate == Init /\ [][NextGate]_vars

-----------------------------------------------------------------------------
(* Properties *)

\* no index k with k+1 <= maxCost has t[k+1] > budget
Infeasible(t, budget) == \A k \in 0..(maxCost - 1) : t[k + 1] <= budget

\* goroutine t is between tuningWg.Add(1) and wg.Done()
InTune(t) ==
    pc[t] \in {"tune_measure", "tune_lock", "tune_lock_wait", "tune_write_q",
               "tune_write_s", "tune_unlock", "tune_done", "panic_done"}

\* goroutine t is in a Gen*FromPass, past the send on bc.concCount
InGate(t) == op[t] \in GenOps /\ pc[t] \notin {"idle", "gen_send", "dead"}

\* goroutine t has returned from a call of one of the methods in ops
Returned(t, ops) == pc[t] = "idle" /\ op[t] \in ops

\* the cost t's own tuning run computed for the tier of its call
OwnCost(t) == IF TierOf(op[t]) = "quick" THEN qc[t] ELSE sc[t]

\* C1: when a budget is larger than every entry of the latency table, Tune
\* reports a TuningInfeasible error instead of returning normally.
C1_TuneReportsInfeasible ==
    \A t \in Threads :
        ( /\ Returned(t, {"Tune"})
          /\ hist.ranTune[t]
          /\ Infeasible(cts[t], Options.q) \/ Infeasible(cts[t], Options.s) )
        => res[t].kind = "TuningInfeasible"

\* C2: Gen*FromPass never hands the unset cost 0 to the hashing primitive; a
\* call whose tier cost is unset returns an error.
C2_GenNeverUsesUnsetCost ==
    \A t \in Threads :
        /\ pc[t] = "gen_call" => c[t] # 0
        /\ (Returned(t, GenOps) /\ c[t] = 0) => res[t].kind # "hash"

\* C3: the occupied gate slots are exactly the Gen*FromPass calls past the
\* acquisition, never more than GenConcurrency, none once every call has
\* returned or panicked; with GenConcurrency = 1 no two calls are inside the
\* primitive together.
C3_GateBoundsGenCalls ==
    /\ concCount = Cardinality({t \in Threads : InGate(t)})
    /\ concCount <= Options.conc
    /\ (\A t \in Threads : pc[t] \in {"idle", "dead"}) => concCount = 0
    /\ Options.conc = 1 => Cardinality({t \in Threads : pc[t] = "gen_call"}) <= 1

\* C3 happens: the gate is full, one call is inside the primitive and another
\* waits at the gate.
C3_Witness ==
    \E t, u \in Threads :
        /\ pc[t] = "gen_call"
        /\ pc[u] = "gen_send"
        /\ concCount = Options.conc

\* C4: once a tuning run has written the pair, on an instance with
\* GenQuickMaxTime <= GenStrongMaxTime, quickCost <= strongCost.
C4_QuickAtMostStrong ==
    ( /\ Options.q <= Options.s
      /\ hist.lastWriter # NoThread
      /\ mu.writer # "held" )
    => quickCost <= strongCost

\* the table t around a tier's cost: up to the cost within the budget, over
\* the budget right after it
WithinBudget(t, cost, budget) ==
    /\ t[cost] <= budget
    /\ t[cost + 1] > budget
    /\ \A j \in 0..cost : t[j] <= budget

\* C5: a tuning run with positive budgets that stores a non-zero cost for a
\* tier stores one whose table entry, and every entry below it, is within the
\* tier's budget while the next entry is over it.
C5_StoredCostWithinBudget ==
    \A t \in Threads :
        pc[t] = "tune_unlock" =>
            /\ quickCost = qc[t]
            /\ strongCost = sc[t]
            /\ (Options.q > 0 /\ quickCost # 0) => WithinBudget(cts[t], quickCost, Options.q)
            /\ (Options.s > 0 /\ strongCost # 0) => WithinBudget(cts[t], strongCost, Options.s)

\* C5 happens: a run over a table that is not monotone has stored two
\* non-zero costs for positive budgets.
C5_Witness ==
    \E t \in Threads :
        /\ pc[t] = "tune_unlock"
        /\ Options.q > 0 /\ quickCost # 0
        /\ Options.s > 0 /\ strongCost # 0
        /\ cts[t][6] < cts[t][5]

\* C6: on an instance on which no goroutine called Tune, a Current*Cost (also
\* within Gen*FromPass or IsCost*) that finds the zero sentinel runs a tuning
\* run to its end and returns the value that run wrote, so that a Gen*FromPass
\* whose run found a non-zero cost hands a non-zero cost to the primitive.
C6_LazyTuneUsed ==
    \A t \in Threads :
        ( /\ ~hist.tuneCalled
          /\ hist.lazy[t]
          /\ pc[t] \in {"idle", "gen_call", "gen_recv", "is_test"} )
        => /\ hist.ranTune[t]
           /\ c[t] = OwnCost(t)
           /\ (pc[t] = "gen_call" /\ OwnCost(t) # 0) => c[t] # 0

\* C7: with no tuning run since the Gen*FromPass that made the hash, IsCost*
\* of the same tier succeeds on it, and IsCostStrong fails on a hash of
\* GenQuickFromPass whenever quickCost < strongCost.
C7_IsCostAfterGen ==
    \A t \in Threads :
        ( /\ Returned(t, IsCostOps)
          /\ lastHash[t] # NoHash
          /\ arg[t] = lastHash[t]
          /\ hist.genFresh[t] )
        => /\ hist.genTier[t] = TierOf(op[t]) => res[t].kind = "nil"
           /\ ( /\ hist.genTier[t] = "quick"
                /\ op[t] = "IsCostStrong"
                /\ quickCost < strongCost )
              => res[t].kind # "nil"

\* C8: IsCost* reports the primitive's malformed-hash error when the hash does
\* not parse, ErrLowCost when its cost is below the tier's cost, and success
\* otherwise.
C8_IsCostOutcomes ==
    \A t \in Threads :
        Returned(t, IsCostOps) =>
            /\ ~arg[t].ok => res[t].kind = "ErrMalformed"
            /\ (arg[t].ok /\ arg[t].cost < c[t]) => res[t].kind = "ErrLowCost"
            /\ (arg[t].ok /\ arg[t].cost >= c[t]) => res[t].kind = "nil"

\* C8 happens: one IsCost* has reported a malformed hash, another a cost that
\* is too low.
C8_Witness ==
    \E t, u \in Threads :
        /\ Returned(t, IsCostOps) /\ res[t].kind = "ErrMalformed"
        /\ Returned(u, IsCostOps) /\ res[u].kind = "ErrLowCost" /\ arg[u].ok

\* C9: two calls of the same cost accessor by a goroutine, with no Tune call
\* of any goroutine in between, return the same cost.
C9_AccessorIdempotent ==
    \A t \in Threads, tier \in {"quick", "strong"} :
        (hist.accPrev[t][tier] # NoVal /\ hist.accLast[t][tier] # NoVal)
        => hist.accPrev[t][tier] = hist.accLast[t][tier]

\* C10: at most one execution of the tuning algorithm is in flight.
C10_OneTuningRun ==
    Cardinality({t \in Threads : InTune(t)}) <= 1

\* Options values on which New is evaluated besides the ones of OptionInputs:
\* capacities -1, 0..3, maxAlloc - hchanSize, the next one, maxAlloc and 2^60
OptionGrid ==
    [q : {0, 0 - 1, 50, GenQuickMaxTime}, s : {0, 200, GenStrongMaxTime},
     conc : {Int64(0 - 1), Int64(0), Int64(1), Int64(GenConcurrency),
             Int64(GenConcurrency + 1),
             [hi |-> maxAllocHi - 1, lo |-> Word - hchanSize],
             [hi |-> maxAllocHi - 1, lo |-> Word - hchanSize + 1],
             [hi |-> maxAllocHi, lo |-> 0],
             [hi |-> Word, lo |-> 0]}]

\* every field of opts that is zero has its default in o, every other field
\* is the caller's
DefaultsApplied(opts, o) ==
    /\ o.q = (IF opts.q = 0 THEN GenQuickMaxTime ELSE opts.q)
    /\ o.s = (IF opts.s = 0 THEN GenStrongMaxTime ELSE opts.s)
    /\ o.conc = (IF opts.conc = Int64(0) THEN Int64(GenConcurrency) ELSE opts.conc)

\* the capacity the new instance's gate is to have, from the Options handed
\* to New
GateCapacity ==
    IF hist.opts.conc = Int64(0) THEN GenConcurrency ELSE hist.opts.conc.lo

\* the new instance: the Options handed to New with the defaults applied,
\* both costs unset, the gate empty; and on every instance a caller at the
\* gate (lines 73, 82) is let in exactly while fewer than GateCapacity are in
NewInstance ==
    /\ DefaultsApplied(hist.opts, [Options EXCEPT !.conc = Int64(Options.conc)])
    /\ calls = 0 => /\ quickCost = 0
                    /\ strongCost = 0
                    /\ concCount = 0
    /\ \A t \in Threads :
         pc[t] = "gen_send" => (ENABLED GenSend(t) <=> concCount < GateCapacity)

\* C11 as stated: New replaces each zero field of Options (all of them for
\* nil) by its default, 500ms, 2000ms and 2, and keeps every other field,
\* whatever positive concurrency limit the caller supplies; before any call
\* both costs are 0 and the gate, of capacity GenConcurrency, is empty.
C11_NewKeepsEveryField ==
    /\ GenQuickMaxTime = 500 /\ GenStrongMaxTime = 2000 /\ GenConcurrency = 2
    /\ NewInstance
    /\ calls = 0 => \A o \in OptionGrid, mem \in BOOLEAN :
                        ~Negative(o.conc)
                        => /\ New(o, mem) \notin {NoBcrypter, OutOfMemory}
                           /\ DefaultsApplied(o, New(o, mem))

\* the channel of line 67 can be made for opts: GenConcurrency is zero, or a
\* capacity make accepts whose buffer the machine has the memory for
ChannelCanBeMade(opts, mem) ==
    /\ IsZero(opts.conc) \/ MakeChanAccepts(opts.conc)
    /\ opts.conc.hi > 0 => mem

\* C11, amended: the same for the Options of which the channel of line 67
\* can be made; on any other GenConcurrency New panics, or the process ends
\* for want of memory, and there is no instance.
C11_NewDefaults ==
    /\ GenQuickMaxTime = 500 /\ GenStrongMaxTime = 2000 /\ GenConcurrency = 2
    /\ NewInstance
    /\ calls = 0 => \A o \in OptionGrid, mem \in BOOLEAN :
                        IF ChannelCanBeMade(o, mem)
                        THEN /\ New(o, mem) \notin {NoBcrypter, OutOfMemory}
                             /\ DefaultsApplied(o, New(o, mem))
                        ELSE New(o, mem) \in {NoBcrypter, OutOfMemory}

\* C11 happens: New was handed Options with budgets of the caller and no
\* GenConcurrency, and nothing has been called yet; New panics on an Options
\* with a positive GenConcurrency beyond what make accepts.
C11_Witness ==
    /\ calls = 0
    /\ IsZero(hist.opts.conc) /\ hist.opts.q # 0 /\ hist.opts.s # 0
    /\ Options.conc = GenConcurrency
    /\ Options.q = hist.opts.q
    /\ \E o \in OptionGrid : ~Negative(o.conc) /\ New(o, TRUE) = NoBcrypter
    /\ \E o \in OptionGrid : o.conc.hi > 0 /\ New(o, TRUE).conc = o.conc

\* goroutine t's tuning run has just built its table and scanned it (lines
\* 149-180) and is about to store the pair
TableBuilt(t) == pc[t] = "tune_lock"

\* the indices k >= lo with k+1 <= maxCost whose next entry is over the budget
Qualifying(t, budget, lo) == {k \in lo..(maxCost - 1) : t[k + 1] > budget}

\* the smallest of them, 0 when there is none
FirstQualifying(t, budget, lo) ==
    LET S == Qualifying(t, budget, lo)
    IN  IF S = {} THEN 0 ELSE CHOOSE k \in S : \A j \in S : k <= j

\* C12 as stated: the scan sets each tier's cost to the smallest index k,
\* from 0 upward, with k+1 <= maxCost and table[k+1] over the tier's budget;
\* no later index replaces it.
C12_ScanKeepsFirstIndex ==
    \A t \in Threads :
        TableBuilt(t) =>
            /\ qc[t] = FirstQualifying(cts[t], Options.q, 0)
            /\ sc[t] = FirstQualifying(cts[t], Options.s, 0)

\* C12 amended: the scan sets each tier's cost to the smallest index k >= 1
\* with k+1 <= maxCost and table[k+1] over the tier's budget, each tier on its
\* own; index 0 is never kept, a later index never replaces a kept k >= 1.
C12_ScanKeepsFirstPositiveIndex ==
    \A t \in Threads :
        TableBuilt(t) =>
            /\ qc[t] = FirstQualifying(cts[t], Options.q, 1)
            /\ sc[t] = FirstQualifying(cts[t], Options.s, 1)

\* C12 happens: entry 1 is over the quick budget, so index 0 qualifies, and
\* the scan has kept index 1 for the quick tier and a higher one for the
\* strong tier.
C12_Witness ==
    \E t \in Threads :
        /\ TableBuilt(t)
        /\ 0 \in Qualifying(cts[t], Options.q, 0)
        /\ qc[t] = 1
        /\ sc[t] > minCost
        /\ Cardinality(Qualifying(cts[t], Options.s, 1)) > 1

\* entry i of table t is extrapolated (lines 168-170), not measured
Extrapolated(t, i) == i >= minCost /\ t[i - 1] >= interpTime

\* C13: a tuning run's table has the entries 0..maxCost; the entries below
\* minCost are 0; from minCost on an entry is the duration measured at that
\* cost when the entry before it is below interpTime, and otherwise twice the
\* entry before it, truncated to a multiple of 10ms; after an extrapolated
\* entry every entry is extrapolated and larger than the one before it.
\* (Measured durations stay far below the 68s from which 27 doublings leave
\* the range of time.Duration.)
C13_TableConstruction ==
    \A t \in Threads :
        TableBuilt(t) =>
            /\ DOMAIN cts[t] = 0..maxCost
            /\ \A i \in 0..(minCost - 1) : cts[t][i] = 0
            /\ \E meas \in Measurements :
                 \A i \in minCost..maxCost :
                     IF Extrapolated(cts[t], i)
                     THEN /\ cts[t][i] % 10 = 0
                          /\ cts[t][i] <= 2 * cts[t][i - 1]
                          /\ 2 * cts[t][i - 1] < cts[t][i] + 10
                     ELSE cts[t][i] = meas[i]
            /\ \A i \in minCost..(maxCost - 1) :
                 Extrapolated(cts[t], i)
                 => Extrapolated(cts[t], i + 1) /\ cts[t][i] < cts[t][i + 1]

\* C13 happens: a run measured costs 4 to 9, not in increasing order, and
\* extrapolated from cost 10 on, truncating.
C13_Witness ==
    \E t \in Threads :
        /\ TableBuilt(t)
        /\ cts[t][minCost + 2] < cts[t][minCost + 1]
        /\ ~Extrapolated(cts[t], 9)
        /\ Extrapolated(cts[t], 10)
        /\ cts[t][10] = 110
        /\ cts[t][maxCost] = 2 * cts[t][maxCost - 1]

\* goroutine t is inside the write critical section (lines 183-185)
InWrite(t) == pc[t] \in {"tune_write_q", "tune_write_s", "tune_unlock"}

\* goroutine t holds bc.mu for reading (lines 117, 123, 132, 138)
InRead(t) == pc[t] \in {"cur_read", "cur_read2"}

\* C14: outside the write critical section the stored pair is (0, 0) or the
\* pair one single tuning run computed; a goroutine that reads a cost under
\* the read lock does so outside every write critical section.
C14_PairReplacedAtomically ==
    /\ (\A t \in Threads : ~InWrite(t))
       => /\ <<quickCost, strongCost>> = hist.written
          /\ hist.lastWriter = NoThread => hist.written = <<0, 0>>
    /\ Cardinality({t \in Threads : InWrite(t)}) <= 1
    /\ \A t \in Threads :
         InRead(t) => /\ \A u \in Threads : ~InWrite(u)
                      /\ <<quickCost, strongCost>> = hist.written

\* C14 happens: two tuning runs computed different pairs; one has stored its
\* pair and its caller reads the cost again, under the read lock, while the
\* other run waits for the write lock.
C14_Witness ==
    \E t, u \in Threads :
        /\ pc[t] = "cur_read2"
        /\ hist.lastWriter = t
        /\ pc[u] = "tune_lock_wait"
        /\ qc[u] # quickCost /\ sc[u] # strongCost
        /\ quickCost # 0 /\ strongCost # 0

\* goroutine t's tuning run failed at a measurement (line 161) and unwinds,
\* or has unwound
Failed(t) ==
    \/ pc[t] = "panic_done"
    \/ pc[t] \in {"panic_recv", "dead"} /\ res[t].kind # "panic_sync"

\* a step of a goroutine whose measurement fails, or whose panic unwinds
FailingStep(t) ==
    \/ pc[t] = "tune_measure" /\ pc'[t] = "panic_done"
    \/ pc[t] \in {"panic_done", "panic_recv"} /\ pc'[t] # pc[t]

\* C15: a tuning run whose measurement fails stores nothing, so both costs
\* keep their values; the failure reaches the caller that triggered the run
\* (as a panic), and the counter of bc.tuningWg is decremented: it counts the
\* runs still in flight, so nobody waits for the failed one.
C15_FailedRunAborts ==
    /\ [](/\ tuningWg = Cardinality({t \in Threads : InTune(t)})
          /\ \A t \in Threads :
               /\ Failed(t) => ~hist.ranTune[t]
               /\ Failed(t) /\ pc[t] = "dead" => res[t].kind = "panic")
    /\ [][\A t \in Threads :
             FailingStep(t) => UNCHANGED <<quickCost, strongCost, hist.written>>]_vars

\* C15 happens: the lazily triggered run of one Gen*FromPass failed, nothing
\* is stored, no run is in flight and another caller is past its Wait.
C15_Witness ==
    \E t, u \in Threads :
        /\ pc[t] = "dead" /\ op[t] \in GenOps
        /\ tuningWg = 0
        /\ <<quickCost, strongCost>> = <<0, 0>>
        /\ pc[u] = "cur_rlock"

\* C16: whenever a Current*Cost reads a cost (lines 117, 132 and the re-read
\* of lines 123, 138), no tuning run is in flight on the instance.
C16_NoReadDuringTuning ==
    \A t \in Threads :
        InRead(t) => /\ tuningWg = 0
                     /\ \A u \in Threads : ~InTune(u)

\* C17: on an instance on which no goroutine called Tune, at most one tuning
\* run is ever executed: no two goroutines have each, within their present
\* or last call, started a tuning run.
C17_LazyTuneOnce ==
    ~hist.tuneCalled
    => Cardinality({t \in Threads : hist.ranTune[t] \/ InTune(t)}) <= 1

\* a cost the hashing primitive accepts as it is
ValidCost(cost) == minCost <= cost /\ cost <= maxCost

\* C18: with positive budgets every non-zero cost a tuning run has stored,
\* and every non-zero cost Gen*FromPass hands to the primitive, is within
\* minCost..maxCost.
C18_StoredCostInRange ==
    (Options.q > 0 /\ Options.s > 0)
    => /\ quickCost # 0 => ValidCost(quickCost)
       /\ strongCost # 0 => ValidCost(strongCost)
       /\ \A t \in Threads :
            (pc[t] = "gen_call" /\ c[t] # 0) => ValidCost(c[t])

\* the budget is below the duration measured at minCost
TinyBudget(t, budget) == budget < t[minCost]

\* C19 as stated: a tier whose budget is below the duration measured at
\* minCost gets the cost 0.
C19_TinyBudgetGivesZero ==
    \A t \in Threads :
        TableBuilt(t) =>
            /\ TinyBudget(cts[t], Options.q) => qc[t] = 0
            /\ TinyBudget(cts[t], Options.s) => sc[t] = 0

\* the cost the scan derives for a tiny budget: minCost-1, the last cost with
\* a zero entry, when the zero entries are within the budget, and 1 when they
\* exceed it
TinyCost(budget) == IF budget >= 0 THEN minCost - 1 ELSE 1

\* C19 amended: a tier whose budget is below the duration measured at minCost
\* gets a non-zero cost below minCost, whose table entry is zero: minCost-1
\* for a budget >= 0, 1 for a negative budget.
C19_TinyBudgetGivesCostBelowMin ==
    \A t \in Threads :
        TableBuilt(t) =>
            /\ TinyBudget(cts[t], Options.q)
               => /\ qc[t] = TinyCost(Options.q)
                  /\ qc[t] # 0 /\ qc[t] < minCost /\ cts[t][qc[t]] = 0
            /\ TinyBudget(cts[t], Options.s)
               => /\ sc[t] = TinyCost(Options.s)
                  /\ sc[t] # 0 /\ sc[t] < minCost /\ cts[t][sc[t]] = 0

\* C19 happens: the quick budget is positive and below the duration measured
\* at minCost, and the scan has derived minCost-1 for the quick tier and a
\* valid cost for the strong tier.
C19_Witness ==
    \E t \in Threads :
        /\ TableBuilt(t)
        /\ Options.q > 0
        /\ TinyBudget(cts[t], Options.q)
        /\ qc[t] = minCost - 1
        /\ ~TinyBudget(cts[t], Options.s)
        /\ ValidCost(sc[t])


\* C20: no deadlock or lost wake-up: the counter of bc.tuningWg never goes
\* negative, a goroutine blocked in Wait is released (the counter is positive
\* while anyone is blocked, and the Done that zeroes it releases everyone),
\* and a released caller goes on to return: no call is ended by the panic of
\* a WaitGroup reused before the previous Wait has returned.
C20_EveryCallReturns ==
    /\ tuningWg >= 0
    /\ Waiters # {} => tuningWg > 0
    /\ \A t \in Threads : res[t].kind # "panic_sync"
====
